---- MODULE Spec2Model ----
(***************************************************************************)
(* Model of bbax/fem_1d.py: assembly of the 1D PN finite-element system.   *)
(*                                                                         *)
(* Real numbers are exact rationals <<numerator, denominator>> in lowest   *)
(* terms with a positive denominator, so equality of values is equality    *)
(* of tuples.  Floating-point rounding is not modelled.  Arrays keep the   *)
(* 0-based indices of the source: a sequence s is read with At(s, i).      *)
(***************************************************************************)
EXTENDS Integers, Sequences, FiniteSets, TLC

VARIABLES pc, err, element, regions, elements_per_cm, N_max, bc,
          nodes, sigma_t, sigma_s, q,
          mass_matrix, local_streaming, dof_matrix, n_global_dofs,
          A, b, k, i

vars == <<pc, err, element, regions, elements_per_cm, N_max, bc,
          nodes, sigma_t, sigma_s, q,
          mass_matrix, local_streaming, dof_matrix, n_global_dofs,
          A, b, k, i>>

----------------------------------------------------------------------------
(* Bounds of the explored inputs.                                          *)

MaxNmax == 3

MaxRegions == 2

MaxElems == 3

MaxDofElem == 5

MaxVertices == 14

----------------------------------------------------------------------------
(* Exact rational arithmetic.                                              *)

Abs(x) == IF x < 0 THEN -x ELSE x

RECURSIVE GCD(_, _)
GCD(x, y) == IF y = 0 THEN x ELSE GCD(y, x % y)

Rat(n, d) ==
    LET s == IF d < 0 THEN -1 ELSE 1
        g == GCD(Abs(n), Abs(d))
    IN  IF n = 0 THEN <<0, 1>> ELSE <<(s * n) \div g, (s * d) \div g>>

RInt(n) == <<n, 1>>

Zero == <<0, 1>>

One == <<1, 1>>

RAdd(x, y) == Rat(x[1] * y[2] + y[1] * x[2], x[2] * y[2])

RNeg(x) == <<-x[1], x[2]>>

RSub(x, y) == RAdd(x, RNeg(y))

RMul(x, y) == Rat(x[1] * y[1], x[2] * y[2])

RDiv(x, y) == Rat(x[1] * y[2], x[2] * y[1])

RLess(x, y) == x[1] * y[2] < y[1] * x[2]

At(s, j) == s[j + 1]

Range0(n) == 0 .. (n - 1)

RECURSIVE RSumSeq(_)
RSumSeq(s) == IF s = <<>> THEN Zero ELSE RAdd(Head(s), RSumSeq(Tail(s)))

RECURSIVE RPow(_, _)
RPow(x, n) == IF n = 0 THEN One ELSE RMul(x, RPow(x, n - 1))

----------------------------------------------------------------------------
(* The finite element (basix): the degree-p Lagrange element on [0,1] with *)
(* local ordering [vertex0, vertex1, interior...], and a quadrature rule   *)
(* that integrates polynomials of the requested degree exactly.  The rule  *)
(* used here has rational points (Simpson for degree 2, Boole for degree   *)
(* 4); any rule exact to that degree gives the same integrals.             *)

Lagrange(degree) == [degree |-> degree, dim |-> degree + 1]

make_quadrature(quad_deg) ==
    IF quad_deg <= 3
    THEN [points  |-> <<Rat(0, 1), Rat(1, 2), Rat(1, 1)>>,
          weights |-> <<Rat(1, 6), Rat(4, 6), Rat(1, 6)>>]
    ELSE [points  |-> <<Rat(0, 1), Rat(1, 4), Rat(1, 2), Rat(3, 4), Rat(1, 1)>>,
          weights |-> <<Rat(7, 90), Rat(32, 90), Rat(12, 90), Rat(32, 90), Rat(7, 90)>>]

\* element.tabulate(1, points): basis values [0] and reference derivatives [1]
\* at one point x, one entry per local basis function.
tabulate(el, x) ==
    IF el.degree = 1
    THEN [phi  |-> <<RSub(One, x), x>>,
          dphi |-> <<RInt(-1), RInt(1)>>]
    ELSE [phi  |-> <<RMul(RSub(One, x), RSub(One, RMul(RInt(2), x))),
                     RMul(x, RSub(RMul(RInt(2), x), One)),
                     RMul(RMul(RInt(4), x), RSub(One, x))>>,
          dphi |-> <<RSub(RMul(RInt(4), x), RInt(3)),
                     RSub(RMul(RInt(4), x), One),
                     RSub(RInt(4), RMul(RInt(8), x))>>]

\* mass_matrix[i][j] = sum_q weights[q] * dphi[q][i] * phi[q][j]: the wrong
\* first operand in the einsum.
mass_matrix_of_dphi(el) ==
    LET quad == make_quadrature(2 * el.degree)
        nq   == Len(quad.points)
    IN  [li \in Range0(el.dim) |-> [lj \in Range0(el.dim) |->
            RSumSeq([qp \in 1 .. nq |->
                RMul(quad.weights[qp],
                     RMul(At(tabulate(el, quad.points[qp]).dphi, li),
                          At(tabulate(el, quad.points[qp]).phi, lj)))])]]

\* hihj = einsum('qi,qj->qij', phi, phi); mass = tensordot(weights, hihj)
local_mass(el) ==
    LET quad == make_quadrature(2 * el.degree)
        nq   == Len(quad.points)
    IN  [li \in Range0(el.dim) |-> [lj \in Range0(el.dim) |->
            RSumSeq([qp \in 1 .. nq |->
                RMul(quad.weights[qp],
                     RMul(At(tabulate(el, quad.points[qp]).phi, li),
                          At(tabulate(el, quad.points[qp]).phi, lj)))])]]

\* dhihj = einsum('qi,qj->qij', dphi, phi); streaming = tensordot(weights, dhihj)
local_streaming_of(el) ==
    LET quad == make_quadrature(2 * el.degree)
        nq   == Len(quad.points)
    IN  [li \in Range0(el.dim) |-> [lj \in Range0(el.dim) |->
            RSumSeq([qp \in 1 .. nq |->
                RMul(quad.weights[qp],
                     RMul(At(tabulate(el, quad.points[qp]).dphi, li),
                          At(tabulate(el, quad.points[qp]).phi, lj)))])]]

----------------------------------------------------------------------------
(* create_dof_matrix_vertex_interior                                       *)

\* start_interior computed with dof instead of num_interior.
create_dof_matrix_wrong_stride(el, nds) ==
    LET dof          == el.dim
        num_interior == dof - 2
        num_vertices == Len(nds)
        n_elem       == num_vertices - 1
    IN  [table |-> [e \in 1 .. n_elem |->
                     [l \in 1 .. dof |->
                        IF l = 1 THEN e - 1
                        ELSE IF l = 2 THEN e
                        ELSE num_vertices + (e - 1) * dof + (l - 3)]],
         num_global_dofs |-> num_interior * n_elem + num_vertices]

create_dof_matrix_vertex_interior(el, nds) ==
    LET dof          == el.dim
        num_interior == dof - 2
        num_vertices == Len(nds)
        n_elem       == num_vertices - 1
    IN  [table |-> [e \in 1 .. n_elem |->
                     [l \in 1 .. dof |->
                        IF l = 1 THEN e - 1
                        ELSE IF l = 2 THEN e
                        ELSE num_vertices + (e - 1) * num_interior + (l - 3)]],
         num_global_dofs |-> num_interior * n_elem + num_vertices]

----------------------------------------------------------------------------
(* build_elements_and_materials (the second definition, which is the one   *)
(* bound to the name) for one energy group.  A region is a record          *)
(* [length, st, ss, src]: st = st[energy_group], ss = ss[:, g, g] and      *)
(* src = src[energy_group].                                                *)

\* Python's round(): half rounds to the even neighbour.
PyRound(x) ==
    LET f     == x[1] \div x[2]
        twice == 2 * (x[1] - f * x[2])
    IN  IF twice < x[2] THEN f
        ELSE IF twice > x[2] THEN f + 1
        ELSE IF f % 2 = 0 THEN f ELSE f + 1

\* np.linspace(start, start + length, n_elem + 1)[1:]
linspace_tail(start, length, n_elem) ==
    [j \in 1 .. n_elem |-> RAdd(start, RMul(RInt(j), RDiv(length, RInt(n_elem))))]

Repeat(x, n) == [j \in 1 .. n |-> x]

\* sigma_s_extended_nmax: zeros(N_max + 1) with the leading entries from ss
pad_sigma_s(ss, N) == [m \in 1 .. (N + 1) |-> IF m <= Len(ss) THEN ss[m] ELSE Zero]

\* q_total_matrix: zeros((N_max + 1, dof_elem)) with row 0 set to src
q_total_matrix(src, N, dof_elem) ==
    [m \in 1 .. (N + 1) |-> [j \in 1 .. dof_elem |-> IF m = 1 THEN src ELSE Zero]]

RECURSIVE build_loop(_, _, _, _, _)
build_loop(acc, regs, epc, N, dof_elem) ==
    IF regs = <<>> THEN acc
    ELSE LET r      == Head(regs)
             n_elem == PyRound(RMul(r.length, RInt(epc)))
             last   == acc.nodes[Len(acc.nodes)]
         IN  build_loop(
               [nodes   |-> acc.nodes \o linspace_tail(last, r.length, n_elem),
                sigma_t |-> acc.sigma_t \o Repeat(r.st, n_elem),
                sigma_s |-> acc.sigma_s \o Repeat(pad_sigma_s(r.ss, N), n_elem),
                q       |-> acc.q \o Repeat(q_total_matrix(r.src, N, dof_elem), n_elem)],
               Tail(regs), epc, N, dof_elem)

build_elements_and_materials(regs, epc, N, dof_elem) ==
    build_loop([nodes |-> <<Zero>>, sigma_t |-> <<>>, sigma_s |-> <<>>, q |-> <<>>],
               regs, epc, N, dof_elem)

\* The slice assignment of line 130 cannot take more moments than N_max + 1.
sigma_s_fits(regs, N) == \A r \in 1 .. Len(regs) : Len(regs[r].ss) <= N + 1

----------------------------------------------------------------------------
(* Inputs.                                                                 *)

Void == [st |-> Zero, ss |-> <<Zero>>, src |-> Zero]

Isotropic == [st |-> One, ss |-> <<Rat(1, 2)>>, src |-> One]

Anisotropic == [st |-> RInt(2), ss |-> <<Rat(1, 2), Rat(1, 4)>>, src |-> Zero]

Region(len, m) == [length |-> len, st |-> m.st, ss |-> m.ss, src |-> m.src]

\* Lengths of 1/2, 1 and 3/2 cm: with 1 or 2 elements per cm they give 0 to
\* 3 elements of width 1/2, 3/4 or 1.
RegionChoices ==
    { Region(Rat(1, 1), Void),
      Region(Rat(3, 2), Isotropic),
      Region(Rat(1, 2), Anisotropic),
      Region(Rat(1, 1), [Anisotropic EXCEPT !.src = One]) }

RegionLists == UNION { [1 .. n -> RegionChoices] : n \in 1 .. MaxRegions }

\* int(round(length * elements_per_cm)) summed over the regions
RECURSIVE total_elements(_, _)
total_elements(regs, epc) ==
    IF regs = <<>> THEN 0
    ELSE PyRound(RMul(Head(regs).length, RInt(epc))) + total_elements(Tail(regs), epc)

BcValues == {"reflective", "marshak", "periodic"}

Elements == {Lagrange(1), Lagrange(2)}

\* The end-to-end scenario: one homogeneous 10 cm region, one element per cm.
ScenarioRegions == << Region(RInt(10), Isotropic) >>

IsScenario ==
    /\ regions = ScenarioRegions
    /\ elements_per_cm = 1
    /\ N_max = 1
    /\ element = Lagrange(1)
    /\ bc = "reflective"

NotBuilt == <<>>

Unset ==
    /\ err = "none"
    /\ mass_matrix = NotBuilt
    /\ local_streaming = NotBuilt
    /\ dof_matrix = NotBuilt
    /\ n_global_dofs = 0
    /\ A = NotBuilt
    /\ b = NotBuilt
    /\ k = 0
    /\ i = 0

InitCreate ==
    /\ pc = "create"
    /\ \/ /\ regions \in RegionLists
          /\ elements_per_cm \in {1, 2}
          /\ total_elements(regions, elements_per_cm) <= MaxElems
          /\ N_max \in 0 .. MaxNmax
          /\ element \in Elements
          /\ bc \in BcValues
       \/ /\ regions = ScenarioRegions
          /\ elements_per_cm = 1
          /\ N_max = 1
          /\ element = Lagrange(1)
          /\ bc = "reflective"
    /\ nodes = <<>>
    /\ sigma_t = <<>>
    /\ sigma_s = <<>>
    /\ q = <<>>
    /\ Unset

\* A direct call of create_dof_matrix_vertex_interior(element, nodes).
InitDofCall ==
    /\ pc = "dof_call"
    /\ \E dof \in 2 .. MaxDofElem : element = Lagrange(dof - 1)
    /\ \E nv \in 1 .. MaxVertices : nodes = [j \in 1 .. nv |-> RInt(j - 1)]
    /\ regions = <<>>
    /\ elements_per_cm = 1
    /\ N_max = 1
    /\ bc = "reflective"
    /\ sigma_t = <<>>
    /\ sigma_s = <<>>
    /\ q = <<>>
    /\ Unset

Init == InitCreate \/ InitDofCall

----------------------------------------------------------------------------
(* _legendre_coeff_matrix: coeff[i][j] = integral over [a, b] of P_i P_j.  *)
(* The source integrates with max(2 L_max, 50) Gauss-Legendre points,      *)
(* which is exact for the integrand's degree 2 (L_max - 1); the model      *)
(* integrates the product polynomial exactly.  A polynomial is the         *)
(* sequence of its coefficients, lowest power first.                       *)

PolyCoef(p, m) == IF m + 1 <= Len(p) /\ m >= 0 THEN p[m + 1] ELSE Zero

PolyAdd(p, r) ==
    [m \in 1 .. (IF Len(p) > Len(r) THEN Len(p) ELSE Len(r)) |->
        RAdd(PolyCoef(p, m - 1), PolyCoef(r, m - 1))]

PolyScale(c, p) == [m \in 1 .. Len(p) |-> RMul(c, p[m])]

PolyMulX(p) == <<Zero>> \o p

PolyMul(p, r) ==
    [m \in 1 .. (Len(p) + Len(r) - 1) |->
        RSumSeq([t \in 1 .. m |-> RMul(PolyCoef(p, t - 1), PolyCoef(r, m - t))])]

\* scipy.special.legendre(n): (n+1) P_{n+1} = (2n+1) x P_n - n P_{n-1}
RECURSIVE legendre(_)
legendre(n) ==
    IF n = 0 THEN <<One>>
    ELSE IF n = 1 THEN <<Zero, One>>
    ELSE PolyScale(Rat(1, n),
            PolyAdd(PolyScale(RInt(2 * n - 1), PolyMulX(legendre(n - 1))),
                    PolyScale(RInt(-(n - 1)), legendre(n - 2))))

PolyIntegral(p, lo, hi) ==
    RSumSeq([m \in 1 .. Len(p) |->
        RMul(p[m], RDiv(RSub(RPow(RInt(hi), m), RPow(RInt(lo), m)), RInt(m)))])

\* P = [legendre(i) for i in range(L_max)] and the products P_i P_j, tabulated
\* once for every order the inputs can ask for.
LegendreProducts ==
    LET P == [n \in 0 .. (MaxNmax + 1) |-> legendre(n)]
    IN  [li \in 0 .. (MaxNmax + 1) |-> [lj \in 0 .. (MaxNmax + 1) |-> PolyMul(P[li], P[lj])]]

legendre_coeff_matrix(L_max, lo, hi) ==
    [li \in Range0(L_max) |-> [lj \in Range0(L_max) |->
        PolyIntegral(LegendreProducts[li][lj], lo, hi)]]

\* left_coeff_matrix = _legendre_coeff_matrix(L_tot, 0, 1), for every L_tot
left_coeff_matrix == [L \in 1 .. (MaxNmax + 2) |-> legendre_coeff_matrix(L, 0, 1)]

\* right_coeff_matrix = _legendre_coeff_matrix(L_tot, -1, 0), for every L_tot
right_coeff_matrix == [L \in 1 .. (MaxNmax + 2) |-> legendre_coeff_matrix(L, -1, 0)]

----------------------------------------------------------------------------
(* assemble_matrix: the assembly loop.                                     *)

n_elem_of(nds) == Len(nds) - 1

L_tot_of(N) == N + 1

total_dof(element_i, local_i, kk) ==
    At(At(dof_matrix, element_i), local_i) + kk * n_global_dofs

\* h = nodes[i+1] - nodes[i]
elem_width(ii) == RSub(At(nodes, ii + 1), At(nodes, ii))

\* A_local = (sigma_t[i] - sigma_s[i][k]) * mass_matrix * h
A_local(ii, kk, li, lj) ==
    RMul(RMul(RSub(At(sigma_t, ii), At(At(sigma_s, ii), kk)), mass_matrix[li][lj]),
         elem_width(ii))

\* s_local = einsum("ij,kj -> ik", mass_matrix * h, q[i])
s_local(ii, li, kk) ==
    RSumSeq([j \in 1 .. element.dim |->
        RMul(RMul(mass_matrix[li][j - 1], elem_width(ii)), At(q, ii)[kk + 1][j])])

\* The streaming value scaled by the element width.
stream_up_value_h(ii, kk, li, lj) ==
    RMul(RMul(local_streaming[li][lj], Rat(kk + 1, 2 * kk + 1)), elem_width(ii))

\* B_local[local_i, local_j] * (k + 1) / (2 * k + 1)
stream_up_value(ii, kk, li, lj) ==
    RMul(local_streaming[li][lj], Rat(kk + 1, 2 * kk + 1))

\* B_local[local_i, local_j] * k / (2 * k + 1)
stream_down_value(ii, kk, li, lj) ==
    RMul(local_streaming[li][lj], Rat(kk, 2 * kk + 1))

\* The target column taken in the current moment block.
stream_up_col_same_block(ii, kk, lj) == total_dof(ii, lj, kk)

stream_up_col(ii, kk, lj) == total_dof(ii, lj, kk + 1)

stream_down_col(ii, kk, lj) == total_dof(ii, lj, kk - 1)

\* The writes into A of the body of the (k, i) iteration, in program order:
\* for each (local_i, local_j) the collision term, then the streaming term
\* into block (k, k+1) if k != L_tot - 1 and into block (k, k-1) if k != 0.
A_writes(kk, ii) ==
    LET d   == element.dim
        all == [t \in 1 .. (d * d * 3) |->
                 LET li   == (t - 1) \div (3 * d)
                     lj   == ((t - 1) \div 3) % d
                     kind == (t - 1) % 3
                 IN  IF kind = 0
                     THEN [on  |-> TRUE,
                           row |-> total_dof(ii, li, kk),
                           col |-> total_dof(ii, lj, kk),
                           val |-> A_local(ii, kk, li, lj)]
                     ELSE IF kind = 1
                     THEN IF kk # L_tot_of(N_max) - 1
                          THEN [on  |-> TRUE,
                                row |-> total_dof(ii, li, kk),
                                col |-> stream_up_col(ii, kk, lj),
                                val |-> stream_up_value(ii, kk, li, lj)]
                          ELSE [on |-> FALSE, row |-> 0, col |-> 0, val |-> Zero]
                     ELSE IF kk # 0
                          THEN [on  |-> TRUE,
                                row |-> total_dof(ii, li, kk),
                                col |-> stream_down_col(ii, kk, lj),
                                val |-> stream_down_value(ii, kk, li, lj)]
                          ELSE [on |-> FALSE, row |-> 0, col |-> 0, val |-> Zero]]
    IN  SelectSeq(all, LAMBDA w : w.on)

\* The writes into b of the (k, i) iteration.
b_writes(kk, ii) ==
    [t \in 1 .. element.dim |->
        [row |-> total_dof(ii, t - 1, kk), val |-> s_local(ii, t - 1, kk)]]

\* A[row, col] = val: the entry is replaced.
overwrite_A(M, w) == [M EXCEPT ![w.row][w.col] = w.val]

\* A[row, col] += val
accumulate_A(M, w) == [M EXCEPT ![w.row][w.col] = RAdd(@, w.val)]

\* b[row, 0] += val
accumulate_b(v, w) == [v EXCEPT ![w.row] = RAdd(@, w.val)]

RECURSIVE scatter_A(_, _)
scatter_A(M, ws) ==
    IF ws = <<>> THEN M ELSE scatter_A(accumulate_A(M, Head(ws)), Tail(ws))

RECURSIVE scatter_b(_, _)
scatter_b(v, ws) ==
    IF ws = <<>> THEN v ELSE scatter_b(accumulate_b(v, Head(ws)), Tail(ws))

zeros_matrix(n) == [r \in Range0(n) |-> [c \in Range0(n) |-> Zero]]

zeros_vector(n) == [r \in Range0(n) |-> Zero]

----------------------------------------------------------------------------
(* Boundary conditions.  A system is a record [A, b].                      *)

zero_row(M, row) == [M EXCEPT ![row] = [c \in DOMAIN M |-> Zero]]

\* range(1, L_tot, 2)
odd_moments(L) == [t \in 1 .. (L \div 2) |-> 2 * t - 1]

\* The diagonal is set without clearing the row first.
reflective_row_keep(sys, row) ==
    [A |-> [sys.A EXCEPT ![row][row] = One],
     b |-> [sys.b EXCEPT ![row] = Zero]]

\* A[row, :] = 0; A[row, row] = 1; b[row, 0] = 0
reflective_row(sys, row) ==
    [A |-> [zero_row(sys.A, row) EXCEPT ![row][row] = One],
     b |-> [sys.b EXCEPT ![row] = Zero]]

RECURSIVE reflective_loop(_, _, _, _, _)
reflective_loop(sys, ks, n, left_dof, right_dof) ==
    IF ks = <<>> THEN sys
    ELSE LET left  == reflective_row(sys, left_dof + Head(ks) * n)
             right == reflective_row(left, right_dof + Head(ks) * n)
         IN  reflective_loop(right, Tail(ks), n, left_dof, right_dof)

apply_reflective_bc(M, v, n, L, left_dof, right_dof) ==
    reflective_loop([A |-> M, b |-> v], odd_moments(L), n, left_dof, right_dof)

\* The weight (2 l + 1) is dropped.
marshak_entry_unweighted(coeff, enforce_i, l) == coeff[enforce_i][l]

\* coeff_matrix[enforce_i, l] * (2 * l + 1)
marshak_entry(coeff, enforce_i, l) == RMul(coeff[enforce_i][l], RInt(2 * l + 1))

\* for l in range(L_tot): the left entry, then the right entry
RECURSIVE marshak_inner(_, _, _, _, _, _, _, _, _)
marshak_inner(M, l, L, enforce_i, n, left_dof, right_dof, left_coeff, right_coeff) ==
    IF l >= L THEN M
    ELSE LET enforce_row_left  == left_dof + enforce_i * n
             enforce_row_right == right_dof + enforce_i * n
             left_edge_row     == left_dof + l * n
             right_edge_row    == right_dof + l * n
             M1 == [M EXCEPT ![enforce_row_left][left_edge_row] =
                        marshak_entry(left_coeff, enforce_i, l)]
             M2 == [M1 EXCEPT ![enforce_row_right][right_edge_row] =
                        marshak_entry(right_coeff, enforce_i, l)]
         IN  marshak_inner(M2, l + 1, L, enforce_i, n, left_dof, right_dof,
                           left_coeff, right_coeff)

RECURSIVE marshak_loop(_, _, _, _, _, _, _, _)
marshak_loop(sys, ks, n, L, left_dof, right_dof, left_coeff, right_coeff) ==
    IF ks = <<>> THEN sys
    ELSE LET enforce_i         == Head(ks)
             enforce_row_left  == left_dof + enforce_i * n
             enforce_row_right == right_dof + enforce_i * n
             cleared == zero_row(zero_row(sys.A, enforce_row_left), enforce_row_right)
             v1      == [sys.b EXCEPT ![enforce_row_left] = Zero,
                                      ![enforce_row_right] = Zero]
         IN  marshak_loop(
               [A |-> marshak_inner(cleared, 0, L, enforce_i, n, left_dof, right_dof,
                                    left_coeff, right_coeff),
                b |-> v1],
               Tail(ks), n, L, left_dof, right_dof, left_coeff, right_coeff)

\* The enforcement also runs over the even moments.
apply_marshak_bc_all_moments(M, v, n, L, left_dof, right_dof) ==
    marshak_loop([A |-> M, b |-> v], [t \in 1 .. L |-> t - 1], n, L, left_dof, right_dof,
                 left_coeff_matrix[L], right_coeff_matrix[L])

apply_marshak_bc(M, v, n, L, left_dof, right_dof) ==
    marshak_loop([A |-> M, b |-> v], odd_moments(L), n, L, left_dof, right_dof,
                 left_coeff_matrix[L], right_coeff_matrix[L])

----------------------------------------------------------------------------
(* The program.                                                            *)

\* Create_Matrix_From_Regions up to the call of assemble_matrix.
CreateMatrixFromRegions ==
    /\ pc = "create"
    /\ IF sigma_s_fits(regions, N_max)
       THEN LET built == build_elements_and_materials(regions, elements_per_cm,
                                                       N_max, element.dim)
            IN  /\ nodes' = built.nodes
                /\ sigma_t' = built.sigma_t
                /\ sigma_s' = built.sigma_s
                /\ q' = built.q
                /\ pc' = "assemble"
                /\ err' = err
       ELSE /\ pc' = "error"
            /\ err' = "shape"
            /\ UNCHANGED <<nodes, sigma_t, sigma_s, q>>
    /\ UNCHANGED <<element, regions, elements_per_cm, N_max, bc, mass_matrix,
                   local_streaming, dof_matrix, n_global_dofs, A, b, k, i>>

\* The local operators, the DOF table and the empty system of lines 181-212.
SetUp ==
    LET dofs == create_dof_matrix_vertex_interior(element, nodes)
        size == dofs.num_global_dofs * L_tot_of(N_max)
    IN  /\ mass_matrix' = local_mass(element)
        /\ local_streaming' = local_streaming_of(element)
        /\ dof_matrix' = dofs.table
        /\ n_global_dofs' = dofs.num_global_dofs
        /\ A' = zeros_matrix(size)
        /\ b' = zeros_vector(size)
        /\ k' = 0
        /\ i' = 0

\* The parity check placed after the set-up.
AssembleEntryCheckLast ==
    /\ pc = "assemble"
    /\ SetUp
    /\ IF N_max % 2 = 0
       THEN pc' = "error" /\ err' = "N_max"
       ELSE pc' = (IF n_elem_of(nodes) = 0 THEN "bc" ELSE "loop") /\ err' = err
    /\ UNCHANGED <<element, regions, elements_per_cm, N_max, bc,
                   nodes, sigma_t, sigma_s, q>>

\* assemble_matrix from its entry to the first iteration of the loop.
AssembleEntry ==
    /\ pc = "assemble"
    /\ IF N_max % 2 = 0
       THEN /\ pc' = "error"
            /\ err' = "N_max"
            /\ UNCHANGED <<mass_matrix, local_streaming, dof_matrix, n_global_dofs,
                           A, b, k, i>>
       ELSE /\ SetUp
            /\ pc' = (IF n_elem_of(nodes) = 0 THEN "bc" ELSE "loop")
            /\ err' = err
    /\ UNCHANGED <<element, regions, elements_per_cm, N_max, bc,
                   nodes, sigma_t, sigma_s, q>>

\* One iteration (k, i) of the assembly loop.
AssembleStep ==
    /\ pc = "loop"
    /\ A' = scatter_A(A, A_writes(k, i))
    /\ b' = scatter_b(b, b_writes(k, i))
    /\ IF i + 1 < n_elem_of(nodes)
       THEN /\ i' = i + 1
            /\ k' = k
            /\ pc' = pc
       ELSE /\ i' = 0
            /\ k' = k + 1
            /\ pc' = (IF k + 1 < L_tot_of(N_max) THEN "loop" ELSE "bc")
    /\ UNCHANGED <<err, element, regions, elements_per_cm, N_max, bc,
                   nodes, sigma_t, sigma_s, q, mass_matrix, local_streaming,
                   dof_matrix, n_global_dofs>>

ApplyReflective ==
    /\ pc = "bc"
    /\ bc = "reflective"
    /\ LET sys == apply_reflective_bc(A, b, n_global_dofs, L_tot_of(N_max),
                                      0, Len(nodes) - 1)
       IN  A' = sys.A /\ b' = sys.b
    /\ pc' = "done"
    /\ UNCHANGED <<err, element, regions, elements_per_cm, N_max, bc,
                   nodes, sigma_t, sigma_s, q, mass_matrix, local_streaming,
                   dof_matrix, n_global_dofs, k, i>>

ApplyMarshak ==
    /\ pc = "bc"
    /\ bc = "marshak"
    /\ LET sys == apply_marshak_bc(A, b, n_global_dofs, L_tot_of(N_max),
                                   0, Len(nodes) - 1)
       IN  A' = sys.A /\ b' = sys.b
    /\ pc' = "done"
    /\ UNCHANGED <<err, element, regions, elements_per_cm, N_max, bc,
                   nodes, sigma_t, sigma_s, q, mass_matrix, local_streaming,
                   dof_matrix, n_global_dofs, k, i>>

RaiseUnknownBc ==
    /\ pc = "bc"
    /\ bc \notin {"reflective", "marshak"}
    /\ pc' = "error"
    /\ err' = "bc"
    /\ UNCHANGED <<element, regions, elements_per_cm, N_max, bc,
                   nodes, sigma_t, sigma_s, q, mass_matrix, local_streaming,
                   dof_matrix, n_global_dofs, A, b, k, i>>

DofCall ==
    /\ pc = "dof_call"
    /\ LET dofs == create_dof_matrix_vertex_interior(element, nodes)
       IN  /\ dof_matrix' = dofs.table
           /\ n_global_dofs' = dofs.num_global_dofs
    /\ pc' = "dof_done"
    /\ UNCHANGED <<err, element, regions, elements_per_cm, N_max, bc,
                   nodes, sigma_t, sigma_s, q, mass_matrix, local_streaming,
                   A, b, k, i>>

Next ==
    \/ CreateMatrixFromRegions
    \/ AssembleEntry
    \/ AssembleStep
    \/ ApplyReflective
    \/ ApplyMarshak
    \/ RaiseUnknownBc
    \/ DofCall

Spec == Init /\ [][Next]_vars

----------------------------------------------------------------------------
(* Properties.                                                             *)

NumVertices == Len(nodes)

NumElems == Len(nodes) - 1

OddMoments == {kk \in 1 .. N_max : kk % 2 = 1}

SpatialDofs == Range0(n_global_dofs)

LoopFinished == pc = "bc"

DofTableBuilt ==
    \/ pc \in {"dof_done", "loop", "bc", "done"}
    \/ pc = "error" /\ err = "bc"

UsedDofs == {At(At(dof_matrix, e), l) : e \in Range0(NumElems), l \in Range0(element.dim)}

Users(g) ==
    {el \in Range0(NumElems) \X Range0(element.dim) : At(At(dof_matrix, el[1]), el[2]) = g}

\* C1: create_dof_matrix_vertex_interior maps, for every element e of a mesh
\* with at least one element, local 0 to e, local 1 to e + 1 and locals
\* 2..dof-1 to the run starting at n_vertices + e*(dof-2); the indices used
\* are exactly 0..n_global_dofs-1 with n_global_dofs = n_vertices +
\* n_elements*(dof-2); an interior index has exactly one user and a vertex
\* index v is used only by elements v-1 and v.
C1_DofNumbering ==
    (DofTableBuilt /\ NumElems >= 1) =>
        LET m == element.dim - 2
        IN  /\ Len(dof_matrix) = NumElems
            /\ \A e \in Range0(NumElems) :
                 /\ Len(At(dof_matrix, e)) = element.dim
                 /\ At(At(dof_matrix, e), 0) = e
                 /\ At(At(dof_matrix, e), 1) = e + 1
                 /\ \A l \in 2 .. (element.dim - 1) :
                      /\ At(At(dof_matrix, e), l) = NumVertices + e * m + (l - 2)
                      /\ At(At(dof_matrix, e), l) <= NumVertices + (e + 1) * m - 1
            /\ n_global_dofs = NumVertices + NumElems * m
            /\ UsedDofs = Range0(n_global_dofs)
            /\ \A g \in NumVertices .. (n_global_dofs - 1) : Cardinality(Users(g)) = 1
            /\ \A g \in Range0(NumVertices) :
                 /\ \A u \in Users(g) : u[1] \in {g - 1, g}
                 /\ Cardinality(Users(g)) <= 2

C1_Witness ==
    /\ pc = "dof_done"
    /\ element.dim = 4
    /\ NumElems >= 3
    /\ At(At(dof_matrix, 2), 3) = NumVertices + 5

\* C2: with N_max even, assemble_matrix ends in the N_max error and nothing
\* has been built at that point: no local operator, no DOF table, no A, no b;
\* the call never reaches the loop, the boundary conditions or the return.
C2_EvenNmaxRejectedFirst ==
    (N_max % 2 = 0 /\ pc \notin {"create", "assemble"}) =>
        /\ pc = "error"
        /\ err \in {"shape", "N_max"}
        /\ mass_matrix = NotBuilt
        /\ local_streaming = NotBuilt
        /\ dof_matrix = NotBuilt
        /\ n_global_dofs = 0
        /\ A = NotBuilt
        /\ b = NotBuilt

C2_Witness ==
    /\ pc = "error"
    /\ err = "N_max"
    /\ N_max = 2
    /\ NumElems >= 2
    /\ A = NotBuilt

\* C3: an unsupported bc is rejected before any element contribution has
\* been accumulated into A or b.
C3_BcRejectedBeforeAccumulation ==
    (pc = "error" /\ err = "bc") =>
        /\ \A r \in DOMAIN A : \A c \in DOMAIN A[r] : A[r][c] = Zero
        /\ \A r \in DOMAIN b : b[r] = Zero

\* C4: after the reflective enforcement every odd-moment row of a boundary
\* vertex is the identity row and b is 0 there.
C4_ReflectiveIdentityRows ==
    (pc = "done" /\ bc = "reflective") =>
        \A kk \in OddMoments : \A d \in {0, NumVertices - 1} :
            LET r == d + kk * n_global_dofs
            IN  /\ \A c \in DOMAIN A[r] : A[r][c] = (IF c = r THEN One ELSE Zero)
                /\ b[r] = Zero

C4_Witness ==
    /\ pc = "done"
    /\ bc = "reflective"
    /\ N_max = 3
    /\ NumElems >= 2
    /\ element.dim = 3
    /\ \E r \in DOMAIN b : b[r] # Zero
    /\ A[3 * n_global_dofs][3 * n_global_dofs] = One

\* C5: after the Marshak enforcement on a mesh with at least one element, the
\* left row of every odd enforce_i holds left_coeff[enforce_i, l]*(2l+1) at
\* column l*n_global_dofs and zero elsewhere, the right row holds
\* right_coeff[enforce_i, l]*(2l+1) at column n_vertices-1 + l*n_global_dofs
\* and zero elsewhere, and b is 0 at both rows.
C5_MarshakRows ==
    (pc = "done" /\ bc = "marshak" /\ NumElems >= 1) =>
        LET L     == N_max + 1
            n     == n_global_dofs
            left  == legendre_coeff_matrix(L, 0, 1)
            right == legendre_coeff_matrix(L, -1, 0)
        IN  \A enforce_i \in OddMoments :
              /\ \A c \in DOMAIN A :
                   /\ A[enforce_i * n][c] =
                        (IF c % n = 0
                         THEN RMul(left[enforce_i][c \div n], RInt(2 * (c \div n) + 1))
                         ELSE Zero)
                   /\ A[NumVertices - 1 + enforce_i * n][c] =
                        (IF c % n = NumVertices - 1
                         THEN RMul(right[enforce_i][c \div n], RInt(2 * (c \div n) + 1))
                         ELSE Zero)
              /\ b[enforce_i * n] = Zero
              /\ b[NumVertices - 1 + enforce_i * n] = Zero

C5_Witness ==
    /\ pc = "done"
    /\ bc = "marshak"
    /\ N_max = 3
    /\ NumElems >= 2
    /\ A[n_global_dofs][2 * n_global_dofs] = Rat(5, 8)
    /\ A[NumVertices - 1 + 3 * n_global_dofs][NumVertices - 1] = Rat(1, 8)

\* The sum of f over every (element, local_i, local_j) whose global DOFs are
\* (r, c), written independently of the loop.
ElementTriples ==
    [t \in 1 .. (NumElems * element.dim * element.dim) |->
        [e  |-> (t - 1) \div (element.dim * element.dim),
         li |-> ((t - 1) \div element.dim) % element.dim,
         lj |-> (t - 1) % element.dim]]

StreamingSum(r, c) ==
    RSumSeq([t \in DOMAIN ElementTriples |->
        LET w == ElementTriples[t]
        IN  IF At(At(dof_matrix, w.e), w.li) = r /\ At(At(dof_matrix, w.e), w.lj) = c
            THEN local_streaming[w.li][w.lj]
            ELSE Zero])

CollisionSum(r, c, kk) ==
    RSumSeq([t \in DOMAIN ElementTriples |->
        LET w == ElementTriples[t]
        IN  IF At(At(dof_matrix, w.e), w.li) = r /\ At(At(dof_matrix, w.e), w.lj) = c
            THEN RMul(RMul(RSub(At(sigma_t, w.e), At(At(sigma_s, w.e), kk)),
                           mass_matrix[w.li][w.lj]),
                      RSub(At(nodes, w.e + 1), At(nodes, w.e)))
            ELSE Zero])

\* C6: at the end of the assembly loop the off-diagonal moment blocks hold
\* only streaming: block (k, k+1) is the scattered streaming matrix times
\* (k+1)/(2k+1), block (k, k-1) is it times k/(2k+1), with no element-width
\* factor, and every block (k, k') with |k - k'| > 1 is zero.
C6_StreamingBlocks ==
    LoopFinished =>
        \A k1 \in 0 .. N_max : \A k2 \in (0 .. N_max) \ {k1} :
            \A r \in SpatialDofs : \A c \in SpatialDofs :
                A[r + k1 * n_global_dofs][c + k2 * n_global_dofs] =
                    (IF k2 = k1 + 1
                     THEN RMul(StreamingSum(r, c), Rat(k1 + 1, 2 * k1 + 1))
                     ELSE IF k2 = k1 - 1
                     THEN RMul(StreamingSum(r, c), Rat(k1, 2 * k1 + 1))
                     ELSE Zero)

C6_Witness ==
    /\ LoopFinished
    /\ N_max = 3
    /\ NumElems >= 2
    /\ elem_width(0) = Rat(3, 4)
    /\ A[0][n_global_dofs] = Rat(-1, 2)
    /\ A[3 * n_global_dofs][2 * n_global_dofs] = Rat(-3, 14)

BoundaryOddRow(r) ==
    /\ (r \div n_global_dofs) % 2 = 1
    /\ (r % n_global_dofs) \in {0, NumVertices - 1}

\* C7: the boundary enforcement, reflective or Marshak, leaves every row of
\* A and b unchanged that belongs to an even moment or to a spatial DOF
\* other than the two boundary vertices.
C7_EnforcementFrame ==
    [][(pc = "bc" /\ pc' = "done") =>
          \A r \in DOMAIN A :
              ~BoundaryOddRow(r) => (A'[r] = A[r] /\ b'[r] = b[r])]_vars

C7_Witness ==
    /\ pc = "done"
    /\ bc = "marshak"
    /\ N_max = 3
    /\ element.dim = 3
    /\ NumElems >= 2
    /\ A[0][0] # Zero
    /\ A[1 + n_global_dofs][1 + n_global_dofs] # Zero
    /\ b[1] # Zero

\* The data of the pending iteration (k, i) are zero.
ZeroDataStep ==
    /\ pc = "loop"
    /\ At(sigma_t, i) = Zero
    /\ At(At(sigma_s, i), k) = Zero
    /\ \A m \in DOMAIN At(q, i) : \A j \in DOMAIN At(q, i)[m] : At(q, i)[m][j] = Zero

\* C8 as stated: an iteration (k, i) with zero source and zero cross-sections
\* leaves A and b as they were.
C8_ZeroDataNoContribution ==
    [][ZeroDataStep => (A' = A /\ b' = b)]_vars

\* C8 amended: an iteration (k, i) with zero source and zero cross-sections
\* leaves b and the diagonal moment block (k, k) of A as they were; A changes
\* only in row block k and column blocks k - 1 and k + 1, where the streaming
\* term is added.
C8_ZeroDataOnlyStreaming ==
    [][ZeroDataStep =>
          /\ b' = b
          /\ \A r \in DOMAIN A : \A c \in DOMAIN A :
                A'[r][c] # A[r][c] =>
                    /\ r \div n_global_dofs = k
                    /\ (c \div n_global_dofs) \in {k - 1, k + 1}]_vars

\* The iteration that has just run.
LastStep ==
    IF i > 0 THEN [k |-> k, i |-> i - 1] ELSE [k |-> k - 1, i |-> NumElems - 1]

C8_Witness ==
    /\ pc \in {"loop", "bc"}
    /\ k + i > 0
    /\ At(sigma_t, LastStep.i) = Zero
    /\ At(At(sigma_s, LastStep.i), LastStep.k) = Zero
    /\ \A m \in DOMAIN At(q, LastStep.i) :
          \A j \in DOMAIN At(q, LastStep.i)[m] : At(q, LastStep.i)[m][j] = Zero
    /\ LastStep.k = 1
    /\ N_max = 3
    /\ \E r \in DOMAIN A : \E c \in DOMAIN A :
          r \div n_global_dofs = 1 /\ c \div n_global_dofs = 2 /\ A[r][c] # Zero

SquareOfSide(M, side) ==
    /\ DOMAIN M = Range0(side)
    /\ \A r \in DOMAIN M : DOMAIN M[r] = Range0(side)

DiagonalBlockSymmetricOn(kk, dofs) ==
    \A r \in dofs : \A c \in dofs :
        A[r + kk * n_global_dofs][c + kk * n_global_dofs] =
            A[c + kk * n_global_dofs][r + kk * n_global_dofs]

\* C9 as stated: in the end-to-end scenario the returned A is square of side
\* 2 n_global_dofs and both diagonal moment blocks are symmetric.
C9_ScenarioSymmetricBlocks ==
    (IsScenario /\ pc = "done") =>
        /\ SquareOfSide(A, 2 * n_global_dofs)
        /\ DiagonalBlockSymmetricOn(0, SpatialDofs)
        /\ DiagonalBlockSymmetricOn(1, SpatialDofs)

\* C9 amended: in the end-to-end scenario the returned A is square of side
\* 2 n_global_dofs, the diagonal block of moment 0 is symmetric, and the
\* diagonal block of moment 1 is symmetric on the spatial DOFs other than the
\* two boundary vertices.
C9_ScenarioSymmetricAwayFromBoundary ==
    (IsScenario /\ pc = "done") =>
        /\ SquareOfSide(A, 2 * n_global_dofs)
        /\ DiagonalBlockSymmetricOn(0, SpatialDofs)
        /\ DiagonalBlockSymmetricOn(1, SpatialDofs \ {0, NumVertices - 1})

C9_Witness ==
    /\ IsScenario
    /\ pc = "done"
    /\ n_global_dofs = 11
    /\ A[0][1] = Rat(1, 12)
    /\ A[12][13] = Rat(1, 6)

\* C10: at the end of the assembly loop every entry of a diagonal moment
\* block (k, k) is the sum, over all elements and local pairs mapped to that
\* entry, of (sigma_t[i] - sigma_s[i][k]) * mass * h_i.
C10_CollisionAdditive ==
    LoopFinished =>
        \A kk \in 0 .. N_max : \A r \in SpatialDofs : \A c \in SpatialDofs :
            A[r + kk * n_global_dofs][c + kk * n_global_dofs] = CollisionSum(r, c, kk)

C10_Witness ==
    /\ LoopFinished
    /\ NumElems >= 2
    /\ At(sigma_t, 0) # At(At(sigma_s, 0), 0)
    /\ At(sigma_t, 1) # At(At(sigma_s, 1), 0)
    /\ A[1][1] = RAdd(A_local(0, 0, 1, 1), A_local(1, 0, 0, 0))
    /\ A[1][1] # A_local(1, 0, 0, 0)

====
